---------------------------- MODULE Spec2Model ----------------------------
(***************************************************************************)
(* A model of ThreeBodyProblem.py: the initial conditions (lines 34-52),   *)
(* the trajectory buffer (line 55), compute_accelerations (lines 58-66),   *)
(* the integration loop (lines 69-73) and the part of the plotting and     *)
(* animation code (lines 103-175) that reads the trajectory buffer.        *)
(*                                                                         *)
(* Numbers.  numpy float64 values are modelled as records                  *)
(* [nan |-> BOOLEAN, val |-> Int]: a finite value in fixed-point units or  *)
(* NaN.  Products and sums are exact; a quotient is rounded toward zero    *)
(* and a square root is rounded down, so that, as in IEEE-754 arithmetic,  *)
(* rounding commutes with negation, 0/0 is NaN and NaN propagates through  *)
(* every operation.  Arrays keep the source's 0-based indices: an array    *)
(* of n rows is a function on 0..n-1.                                      *)
(*                                                                         *)
(* matplotlib's Axes state (limits, view angles, colours) is not part of   *)
(* the model; the data the artists receive from the trajectory buffer is.  *)
(***************************************************************************)
EXTENDS Integers, Sequences, FiniteSets

VARIABLES
    masses,        \* line 34: array of masses
    positions,     \* line 37: array of current positions, updated in place
    velocities,    \* line 44: array of current velocities, updated in place
    dt,            \* line 51
    steps,         \* line 52
    initial,       \* the literals of lines 37-48, as written in the source
    trajectories,  \* line 55: trajectories[i][t] is the row of body i, step t
    t,             \* line 69: the loop variable; -1 before the first iteration
    acc,           \* line 71: the global acc
    acc_new,       \* line 59: the array compute_accelerations builds
    i,             \* line 60
    j,             \* line 61
    r,             \* line 63
    dist,          \* line 64
    mins,          \* line 104
    maxs,          \* line 105
    frame,         \* line 178: the next frame FuncAnimation passes to update
    lines,         \* line 117: the data of the trail artists
    points,        \* line 119: the data of the body markers
    pc,            \* the statement that runs next
    err            \* the exception that ended the script, or "none"

vars == <<masses, positions, velocities, dt, steps, initial, trajectories, t,
          acc, acc_new, i, j, r, dist, mins, maxs, frame, lines, points,
          pc, err>>

----------------------------------------------------------------------------
(* Bounds of the model *)

MaxCoord == 1
MaxMass == 2
MaxSpeed == 1
MaxDt == 1
MaxSteps == 2
MaxN == 4

(* Program constants *)

\* line 29, G = 6.67430e-11, in units of 1e-11 and rounded
G == 7
\* lines 55, 60, 61, 117, 155: the literal 3, the number of bodies
NBodies == 3
\* lines 55, 37-48: the literal 3, the number of spatial components
NDim == 3
\* line 178: frames=range(0, steps, 25)
FrameStride == 25

----------------------------------------------------------------------------
(* float64 arithmetic *)

F(x) == [nan |-> FALSE, val |-> x]

NaN == [nan |-> TRUE, val |-> 0]

FAdd(a, b) == IF a.nan \/ b.nan THEN NaN ELSE F(a.val + b.val)

FSub(a, b) == IF a.nan \/ b.nan THEN NaN ELSE F(a.val - b.val)

FMul(a, b) == IF a.nan \/ b.nan THEN NaN ELSE F(a.val * b.val)

\* integer quotient rounded toward zero, d > 0
TruncDiv(n, d) == IF n >= 0 THEN n \div d ELSE 0 - ((0 - n) \div d)

\* a / b.  The only zero divisor the program produces is dist**3 with
\* r = 0, where the dividend G * masses[j] * r is 0 as well: 0/0 = NaN.
FDiv(a, b) ==
    IF a.nan \/ b.nan \/ b.val = 0 THEN NaN
    ELSE IF b.val > 0 THEN F(TruncDiv(a.val, b.val))
    ELSE F(TruncDiv(0 - a.val, 0 - b.val))

Abs(n) == IF n >= 0 THEN n ELSE 0 - n

\* the integer part of the square root of n, which lies in lo..hi
IntSqrt(n, lo, hi) == CHOOSE k \in lo .. hi : k * k <= n /\ (k + 1) * (k + 1) > n

----------------------------------------------------------------------------
(* numpy arrays *)

Rows(a) == Cardinality(DOMAIN a)

Dims == 0 .. NDim - 1

Bodies == 0 .. NBodies - 1

\* np.zeros(3) as a row
ZeroVec == [k \in Dims |-> F(0)]

VAdd(u, v) == [k \in Dims |-> FAdd(u[k], v[k])]

VSub(u, v) == [k \in Dims |-> FSub(u[k], v[k])]

\* scalar * row
VScale(s, v) == [k \in Dims |-> FMul(s, v[k])]

\* row / scalar
VDiv(v, s) == [k \in Dims |-> FDiv(v[k], s)]

\* np.linalg.norm of a row
Norm(v) ==
    IF v[0].nan \/ v[1].nan \/ v[2].nan THEN NaN
    ELSE LET x == Abs(v[0].val)
             y == Abs(v[1].val)
             z == Abs(v[2].val)
         IN  F(IntSqrt(x * x + y * y + z * z, 0, x + y + z))

\* x**3
Cube(x) == FMul(FMul(x, x), x)

\* np.zeros_like(a)
ZerosLike(a) == [b \in DOMAIN a |-> ZeroVec]

\* a row of integers as a row of floats
Vec(x, y, z) == [k \in Dims |-> F(IF k = 0 THEN x ELSE IF k = 1 THEN y ELSE z)]

\* the first n rows of a tuple, as an array
Arr(n, tup) == [b \in 0 .. n - 1 |-> tup[b + 1]]

----------------------------------------------------------------------------
(* Initial conditions, lines 34-52 *)

\* row k of a positions literal: body 0 on the x axis, body 1 on the x axis,
\* body 2 on the y axis (lines 38-40), further bodies on the z axis
PosRow(a, b, k) ==
    CASE k = 0 -> Vec(a, 0, 0)
      [] k = 1 -> Vec(b, 0, 0)
      [] k = 2 -> Vec(0, a, 0)
      [] OTHER -> Vec(0, 0, a * (k - 1))

\* row k of a velocities literal, with the signs of lines 45-47
VelRow(u, k) ==
    CASE k = 0 -> Vec(u, u, 0 - u)
      [] k = 1 -> Vec(0 - u, 0 - u, u)
      [] OTHER -> Vec(u, 0, u)

\* the state after lines 34-52 have run
Start(m, p, v, d, s) ==
    /\ masses = m
    /\ positions = p
    /\ velocities = v
    /\ dt = F(d)
    /\ steps = s
    /\ initial = [positions |-> p, velocities |-> v]
    /\ trajectories = << >>
    /\ t = -1
    /\ acc = << >>
    /\ acc_new = << >>
    /\ i = 0
    /\ j = 0
    /\ r = ZeroVec
    /\ dist = F(0)
    /\ mins = << >>
    /\ maxs = << >>
    /\ frame = 0
    /\ lines = << >>
    /\ points = << >>
    /\ pc = "alloc"
    /\ err = "none"

\* Lengths are in units of 2.5e9 m and masses in units of 1e26 kg: the
\* 1e10 m of lines 38-40 is 4 and the 1e27 kg of line 34 is 10.

\* element k of a masses literal, in the proportions of line 34
MassRow(m, k) ==
    CASE k = 0 -> F(10 * m)
      [] k = 1 -> F(15 * m)
      [] OTHER -> F(6 * m)

\* three bodies, positive masses, positive dt and steps, as in the source
Init ==
    \E a \in 1 .. MaxCoord, b \in (0 - MaxCoord) .. MaxCoord, u \in 0 .. MaxSpeed,
       m \in 1 .. MaxMass, d \in 1 .. MaxDt, s \in 1 .. MaxSteps :
        Start([k \in Bodies |-> MassRow(m, k)],
              [k \in Bodies |-> PosRow(4 * a, 4 * b, k)],
              [k \in Bodies |-> VelRow(u, k)], d, s)

\* the literals edited: arrays of any length from 1 to MaxN
InitShapes ==
    \E lm \in 1 .. MaxN, lp \in 1 .. MaxN, lv \in 1 .. MaxN,
       a \in 1 .. MaxCoord, s \in 1 .. MaxSteps :
        Start([k \in 0 .. lm - 1 |-> F(10)],
              [k \in 0 .. lp - 1 |-> PosRow(4 * a, 0 - 4 * a, k)],
              [k \in 0 .. lv - 1 |-> VelRow(0, k)], 1, s)

\* the literals edited: three bodies, any mass of body 2, any dt and steps
InitValues ==
    \E x \in 1 .. MaxMass, y \in 1 .. MaxMass, z \in -1 .. MaxMass,
       a \in 1 .. MaxCoord, b \in (0 - MaxCoord) .. MaxCoord, u \in {0, MaxSpeed},
       ds \in ({-1, 0} \X {1}) \cup ((1 .. MaxDt) \X (-1 .. MaxSteps)) :
        Start(Arr(3, <<F(10 * x), F(10 * y), F(10 * z)>>),
              [k \in Bodies |-> PosRow(4 * a, 4 * b, k)],
              [k \in Bodies |-> VelRow(u, k)], ds[1], ds[2])

InitAny == InitShapes \/ InitValues

----------------------------------------------------------------------------
(* Line 55: trajectories = np.zeros((3, steps, 3)) *)

Zeros(n) == [b \in Bodies |-> [s \in 0 .. n - 1 |-> ZeroVec]]

Allocate ==
    /\ pc = "alloc"
    /\ steps >= 0
    /\ trajectories' = Zeros(steps)
    /\ pc' = "for"
    /\ UNCHANGED <<masses, positions, velocities, dt, steps, initial, t, acc,
                   acc_new, i, j, r, dist, mins, maxs, frame, lines, points, err>>

\* np.zeros raises ValueError on a negative dimension
AllocateError ==
    /\ pc = "alloc"
    /\ steps < 0
    /\ pc' = "error"
    /\ err' = "ValueError"
    /\ UNCHANGED <<masses, positions, velocities, dt, steps, initial,
                   trajectories, t, acc, acc_new, i, j, r, dist, mins, maxs, frame,
                   lines, points>>

----------------------------------------------------------------------------
(* Line 69: for t in range(steps) *)

\* variant of line 69: for t in range(steps - 1)
ForNextShort ==
    /\ pc = "for"
    /\ IF t + 1 < steps - 1
         THEN t' = t + 1 /\ pc' = "save"
         ELSE t' = t /\ pc' = "plot"
    /\ UNCHANGED <<masses, positions, velocities, dt, steps, initial,
                   trajectories, acc, acc_new, i, j, r, dist, mins, maxs,
                   frame, lines, points, err>>

ForNext ==
    /\ pc = "for"
    /\ IF t + 1 < steps
         THEN t' = t + 1 /\ pc' = "save"
         ELSE t' = t /\ pc' = "plot"
    /\ UNCHANGED <<masses, positions, velocities, dt, steps, initial,
                   trajectories, acc, acc_new, i, j, r, dist, mins, maxs, frame, lines,
                   points, err>>

----------------------------------------------------------------------------
(* Line 70: trajectories[:, t] = positions *)

\* the assignment copies the values of pos into column s; a one-row pos is
\* broadcast to every row
SetColumn(traj, s, pos) ==
    [b \in DOMAIN traj |->
        [traj[b] EXCEPT ![s] = IF Rows(pos) = 1 THEN pos[0] ELSE pos[b]]]

\* whether an array of n rows can be assigned to, or added to, an array of
\* k rows
Broadcasts(n, k) == n = k \/ n = 1

Save ==
    /\ pc = "save"
    /\ Broadcasts(Rows(positions), NBodies)
    /\ trajectories' = SetColumn(trajectories, t, positions)
    /\ pc' = "call"
    /\ UNCHANGED <<masses, positions, velocities, dt, steps, initial, t, acc,
                   acc_new, i, j, r, dist, mins, maxs, frame, lines, points, err>>

\* "could not broadcast input array from shape (n,3) into shape (3,3)"
SaveError ==
    /\ pc = "save"
    /\ ~Broadcasts(Rows(positions), NBodies)
    /\ pc' = "error"
    /\ err' = "ValueError"
    /\ UNCHANGED <<masses, positions, velocities, dt, steps, initial,
                   trajectories, t, acc, acc_new, i, j, r, dist, mins, maxs, frame,
                   lines, points>>

----------------------------------------------------------------------------
(* Lines 58-66: compute_accelerations(pos), called at line 71 with the     *)
(* global positions as pos; r and dist are its locals                      *)

\* line 65: G * m * r / dist**3, evaluated left to right
Term(m, rr, d) == VDiv(VScale(FMul(F(G), m), rr), Cube(d))

\* variant of line 62: if j > i
InteractsAbove(a, b) == b > a

\* line 62: the pairs the loop body acts on
Interacts(a, b) == a # b

\* the next pair of range(3) x range(3), or the return at line 66
Advance ==
    IF j + 1 < NBodies
      THEN i' = i /\ j' = j + 1 /\ pc' = "inner"
      ELSE IF i + 1 < NBodies
             THEN i' = i + 1 /\ j' = 0 /\ pc' = "inner"
             ELSE i' = i /\ j' = j /\ pc' = "return"

\* line 59
AccEnter ==
    /\ pc = "call"
    /\ acc_new' = ZerosLike(positions)
    /\ i' = 0
    /\ j' = 0
    /\ pc' = "inner"
    /\ UNCHANGED <<masses, positions, velocities, dt, steps, initial,
                   trajectories, t, acc, r, dist, mins, maxs, frame, lines,
                   points, err>>

\* lines 60-62 at a pair the loop body skips
AccSkip ==
    /\ pc = "inner"
    /\ ~Interacts(i, j)
    /\ Advance
    /\ UNCHANGED <<masses, positions, velocities, dt, steps, initial,
                   trajectories, t, acc, acc_new, r, dist, mins, maxs, frame,
                   lines, points, err>>

\* variant of line 63: r = pos[i] - pos[j]
AccRReversed ==
    /\ pc = "inner"
    /\ Interacts(i, j)
    /\ i \in DOMAIN positions
    /\ j \in DOMAIN positions
    /\ r' = VSub(positions[i], positions[j])
    /\ pc' = "dist"
    /\ UNCHANGED <<masses, positions, velocities, dt, steps, initial,
                   trajectories, t, acc, acc_new, i, j, dist, mins, maxs,
                   frame, lines, points, err>>

\* variant of line 63: r = pos[j]; r -= pos[i], where r is a view of pos
AccRView ==
    /\ pc = "inner"
    /\ Interacts(i, j)
    /\ i \in DOMAIN positions
    /\ j \in DOMAIN positions
    /\ r' = VSub(positions[j], positions[i])
    /\ positions' = [positions EXCEPT ![j] = r']
    /\ pc' = "dist"
    /\ UNCHANGED <<masses, velocities, dt, steps, initial, trajectories, t,
                   acc, acc_new, i, j, dist, mins, maxs, frame, lines, points,
                   err>>

\* lines 60-63: r = pos[j] - pos[i]
AccR ==
    /\ pc = "inner"
    /\ Interacts(i, j)
    /\ i \in DOMAIN positions
    /\ j \in DOMAIN positions
    /\ r' = VSub(positions[j], positions[i])
    /\ pc' = "dist"
    /\ UNCHANGED <<masses, positions, velocities, dt, steps, initial,
                   trajectories, t, acc, acc_new, i, j, dist, mins, maxs,
                   frame, lines, points, err>>

\* line 63: "index 1 is out of bounds for axis 0 with size 1"
AccRIndexError ==
    /\ pc = "inner"
    /\ Interacts(i, j)
    /\ ~(i \in DOMAIN positions /\ j \in DOMAIN positions)
    /\ pc' = "error"
    /\ err' = "IndexError"
    /\ UNCHANGED <<masses, positions, velocities, dt, steps, initial,
                   trajectories, t, acc, acc_new, i, j, r, dist, mins, maxs,
                   frame, lines, points>>

\* line 64: dist = np.linalg.norm(r)
AccDist ==
    /\ pc = "dist"
    /\ dist' = Norm(r)
    /\ pc' = "add"
    /\ UNCHANGED <<masses, positions, velocities, dt, steps, initial,
                   trajectories, t, acc, acc_new, i, j, r, mins, maxs, frame,
                   lines, points, err>>

\* variant of line 59: acc = pos, so that line 65 writes through to pos
AccAddAliased ==
    /\ pc = "add"
    /\ j \in DOMAIN masses
    /\ acc_new' = [acc_new EXCEPT ![i] = VAdd(@, Term(masses[j], r, dist))]
    /\ positions' = [positions EXCEPT ![i] = VAdd(@, Term(masses[j], r, dist))]
    /\ Advance
    /\ UNCHANGED <<masses, velocities, dt, steps, initial, trajectories, t,
                   acc, r, dist, mins, maxs, frame, lines, points, err>>

\* line 65: acc[i] += G * masses[j] * r / dist**3
AccAdd ==
    /\ pc = "add"
    /\ j \in DOMAIN masses
    /\ acc_new' = [acc_new EXCEPT ![i] = VAdd(@, Term(masses[j], r, dist))]
    /\ Advance
    /\ UNCHANGED <<masses, positions, velocities, dt, steps, initial,
                   trajectories, t, acc, r, dist, mins, maxs, frame, lines,
                   points, err>>

\* line 65: "index 2 is out of bounds for axis 0 with size 2"
AccAddIndexError ==
    /\ pc = "add"
    /\ j \notin DOMAIN masses
    /\ pc' = "error"
    /\ err' = "IndexError"
    /\ UNCHANGED <<masses, positions, velocities, dt, steps, initial,
                   trajectories, t, acc, acc_new, i, j, r, dist, mins, maxs,
                   frame, lines, points>>

\* line 66 and the assignment of line 71
AccReturn ==
    /\ pc = "return"
    /\ acc' = acc_new
    /\ pc' = "vel"
    /\ UNCHANGED <<masses, positions, velocities, dt, steps, initial,
                   trajectories, t, acc_new, i, j, r, dist, mins, maxs, frame,
                   lines, points, err>>

----------------------------------------------------------------------------
(* Lines 72-73 *)

\* x += y * d, row by row
AddScaled(x, y, d) == [b \in DOMAIN x |-> VAdd(x[b], VScale(d, y[b]))]

\* line 72: velocities += acc * dt
Vel ==
    /\ pc = "vel"
    /\ Broadcasts(Rows(acc), Rows(velocities))
    /\ velocities' = AddScaled(velocities, acc, dt)
    /\ pc' = "pos"
    /\ UNCHANGED <<masses, positions, dt, steps, initial, trajectories, t, acc,
                   acc_new, i, j, r, dist, mins, maxs, frame, lines, points, err>>

\* "operands could not be broadcast together" or "non-broadcastable output"
VelError ==
    /\ pc = "vel"
    /\ ~Broadcasts(Rows(acc), Rows(velocities))
    /\ pc' = "error"
    /\ err' = "ValueError"
    /\ UNCHANGED <<masses, positions, velocities, dt, steps, initial,
                   trajectories, t, acc, acc_new, i, j, r, dist, mins, maxs, frame,
                   lines, points>>

\* variant of the loop body: line 70 moved after line 73
PosThenSave ==
    /\ pc = "pos"
    /\ Broadcasts(Rows(velocities), Rows(positions))
    /\ positions' = AddScaled(positions, velocities, dt)
    /\ trajectories' = SetColumn(trajectories, t, positions')
    /\ pc' = "for"
    /\ UNCHANGED <<masses, velocities, dt, steps, initial, t, acc, acc_new, i,
                   j, r, dist, mins, maxs, frame, lines, points, err>>

\* variant of the loop body: lines 72 and 73 swapped, so that the position
\* update uses the velocity of the previous step
PosOldVelocity ==
    /\ pc = "pos"
    /\ Broadcasts(Rows(velocities), Rows(positions))
    /\ positions' = [b \in DOMAIN positions |->
                       VAdd(positions[b],
                            VScale(dt, VSub(velocities[b], VScale(dt, acc[b]))))]
    /\ pc' = "for"
    /\ UNCHANGED <<masses, velocities, dt, steps, initial, trajectories, t,
                   acc, acc_new, i, j, r, dist, mins, maxs, frame, lines,
                   points, err>>

\* line 73: positions += velocities * dt
Pos ==
    /\ pc = "pos"
    /\ Broadcasts(Rows(velocities), Rows(positions))
    /\ positions' = AddScaled(positions, velocities, dt)
    /\ pc' = "for"
    /\ UNCHANGED <<masses, velocities, dt, steps, initial, trajectories, t, acc,
                   acc_new, i, j, r, dist, mins, maxs, frame, lines, points, err>>

----------------------------------------------------------------------------
(* Lines 103-123: the bounds of the trajectory and the empty artists *)

\* the values of component k over all bodies and steps
Component(traj, k) == {traj[b][s][k] : b \in Bodies, s \in 0 .. steps - 1}

\* np.min / np.max of a set of values: NaN if any value is NaN
FMin(vals) ==
    IF \E v \in vals : v.nan THEN NaN
    ELSE CHOOSE v \in vals : \A w \in vals : v.val <= w.val

FMax(vals) ==
    IF \E v \in vals : v.nan THEN NaN
    ELSE CHOOSE v \in vals : \A w \in vals : v.val >= w.val

NoData == [b \in Bodies |-> << >>]

\* variant of lines 103-106: all_xyz -= mins, where all_xyz is a view of
\* trajectories
PlotRecentred ==
    /\ pc = "plot"
    /\ steps > 0
    /\ mins' = [k \in Dims |-> FMin(Component(trajectories, k))]
    /\ maxs' = [k \in Dims |-> FMax(Component(trajectories, k))]
    /\ trajectories' = [b \in Bodies |-> [s \in 0 .. steps - 1 |->
                           VSub(trajectories[b][s], mins')]]
    /\ lines' = NoData
    /\ points' = NoData
    /\ pc' = "init"
    /\ UNCHANGED <<masses, positions, velocities, dt, steps, initial, t, acc,
                   acc_new, i, j, r, dist, frame, err>>

Plot ==
    /\ pc = "plot"
    /\ steps > 0
    /\ mins' = [k \in Dims |-> FMin(Component(trajectories, k))]
    /\ maxs' = [k \in Dims |-> FMax(Component(trajectories, k))]
    /\ lines' = NoData
    /\ points' = NoData
    /\ pc' = "init"
    /\ UNCHANGED <<masses, positions, velocities, dt, steps, initial,
                   trajectories, t, acc, acc_new, i, j, r, dist, frame, err>>

\* "zero-size array to reduction operation minimum which has no identity"
PlotError ==
    /\ pc = "plot"
    /\ steps = 0
    /\ pc' = "error"
    /\ err' = "ValueError"
    /\ UNCHANGED <<masses, positions, velocities, dt, steps, initial,
                   trajectories, t, acc, acc_new, i, j, r, dist, mins, maxs, frame,
                   lines, points>>

----------------------------------------------------------------------------
(* Lines 126-178: the animation callbacks, called by FuncAnimation with    *)
(* init first and then update(frame) for frame in range(0, steps, 25)      *)

\* lines 126-130
AnimInit ==
    /\ pc = "init"
    /\ lines' = NoData
    /\ points' = NoData
    /\ frame' = 0
    /\ pc' = "update"
    /\ UNCHANGED <<masses, positions, velocities, dt, steps, initial,
                   trajectories, t, acc, acc_new, i, j, r, dist, mins, maxs, err>>

\* line 156: trajectories[b, :f]
Trail(traj, b, f) == [s \in 0 .. f - 1 |-> traj[b][s]]

\* lines 133-175
Update ==
    /\ pc = "update"
    /\ frame < steps
    /\ lines' = [b \in Bodies |-> Trail(trajectories, b, frame)]
    /\ points' = [b \in Bodies |->
                    IF frame > 0 THEN <<trajectories[b][frame - 1]>>
                    ELSE points[b]]
    /\ frame' = frame + FrameStride
    /\ UNCHANGED <<masses, positions, velocities, dt, steps, initial,
                   trajectories, t, acc, acc_new, i, j, r, dist, mins, maxs, pc, err>>

\* range(0, steps, 25) is exhausted
AnimEnd ==
    /\ pc = "update"
    /\ frame >= steps
    /\ pc' = "done"
    /\ UNCHANGED <<masses, positions, velocities, dt, steps, initial,
                   trajectories, t, acc, acc_new, i, j, r, dist, mins, maxs, frame,
                   lines, points, err>>

----------------------------------------------------------------------------
(* Specifications *)

\* the script as written: three bodies
Next ==
    \/ Allocate
    \/ ForNext
    \/ Save
    \/ AccEnter
    \/ AccSkip
    \/ AccR
    \/ AccDist
    \/ AccAdd
    \/ AccReturn
    \/ Vel
    \/ Pos
    \/ Plot
    \/ AnimInit
    \/ Update
    \/ AnimEnd

Spec == Init /\ [][Next]_vars

\* the statements run one after another until the script ends
FairSpec == Spec /\ WF_vars(Next)

\* the script with its literals edited: the exceptions can be raised
NextAny ==
    \/ Next
    \/ AllocateError
    \/ SaveError
    \/ AccRIndexError
    \/ AccAddIndexError
    \/ VelError
    \/ PlotError

SpecAny == InitAny /\ [][NextAny]_vars

----------------------------------------------------------------------------
(* The integration scheme, stated from the initial conditions *)

\* the contribution of body b to the acceleration of body a at pos
Contribution(pos, ms, a, b) ==
    Term(ms[b], VSub(pos[b], pos[a]), Norm(VSub(pos[b], pos[a])))

RECURSIVE SumOver(_, _, _, _)
\* the sum of the contributions of the bodies of the set S to body b
SumOver(pos, ms, b, S) ==
    IF S = {} THEN ZeroVec
    ELSE LET c == CHOOSE x \in S : TRUE
         IN  VAdd(SumOver(pos, ms, b, S \ {c}), Contribution(pos, ms, b, c))

\* the acceleration of every body of 0..n-1 from all the others
Gravity(pos, ms, n) ==
    [b \in 0 .. n - 1 |-> SumOver(pos, ms, b, (0 .. n - 1) \ {b})]

\* one step: v_new = v_old + a * dt, p_new = p_old + v_new * dt
EulerCromer(s) ==
    LET a == Gravity(s.p, masses, NBodies)
        v == [b \in Bodies |-> VAdd(s.v[b], VScale(dt, a[b]))]
    IN  [p |-> [b \in Bodies |-> VAdd(s.p[b], VScale(dt, v[b]))], v |-> v]

RECURSIVE StateAfter(_)
\* positions and velocities after exactly k updates of the initial conditions
StateAfter(k) ==
    IF k = 0 THEN [p |-> initial.positions, v |-> initial.velocities]
    ELSE EulerCromer(StateAfter(k - 1))

\* column s of the trajectory
Column(s) == [b \in Bodies |-> trajectories[b][s]]

\* line 70 has run for step s
Written(s) == s < t \/ (s = t /\ pc # "save")

Computing == pc \in {"call", "inner", "dist", "add", "return"}

InLoop == Computing \/ pc \in {"for", "save", "vel", "pos"}

AfterLoop == pc \in {"plot", "init", "update", "done"}

Finite(v) == \A k \in Dims : ~v[k].nan

AllFinite(a) == \A b \in DOMAIN a : Finite(a[b])

\* two different rows of pos hold the same point
Coincident(pos) == \E a, b \in DOMAIN pos : a # b /\ pos[a] = pos[b]

----------------------------------------------------------------------------
(* C1.  The column written at step s holds the positions reached after     *)
(* exactly s updates: column 0 is the initial positions, and the positions *)
(* of the last update are in positions only, while the last column holds   *)
(* the positions of the update before it.                                  *)

C1_SnapshotBeforeUpdate ==
    /\ \A s \in 0 .. steps - 1 :
          (pc # "alloc" /\ Written(s)) => Column(s) = StateAfter(s).p
    /\ AfterLoop => positions = StateAfter(steps).p

C1_Witness ==
    /\ pc = "done"
    /\ steps >= 2
    /\ Column(0) = initial.positions
    /\ Column(1) # Column(0)
    /\ positions # Column(steps - 1)
    /\ AllFinite(positions)

----------------------------------------------------------------------------
(* C2.  In every step the velocity is updated first, from the acceleration *)
(* at the old positions, and the position update uses the new velocity:    *)
(* v_new = v_old + a(p_old) * dt and p_new = p_old + v_new * dt.           *)

C2_VelocityBeforePosition ==
    /\ pc = "pos" =>
          LET old == StateAfter(t)
              a == Gravity(old.p, masses, NBodies)
          IN  /\ positions = old.p
              /\ \A b \in Bodies :
                    velocities[b] = VAdd(old.v[b], VScale(dt, a[b]))
    /\ (pc = "for" /\ t >= 0) =>
          LET old == StateAfter(t)
              a == Gravity(old.p, masses, NBodies)
          IN  \A b \in Bodies :
                /\ velocities[b] = VAdd(old.v[b], VScale(dt, a[b]))
                /\ positions[b] = VAdd(old.p[b], VScale(dt, velocities[b]))

\* a step whose result differs from p_old + v_old * dt
C2_Witness ==
    /\ pc = "for"
    /\ t >= 0
    /\ AllFinite(positions)
    /\ \E b \in Bodies :
          positions[b] # VAdd(StateAfter(t).p[b], VScale(dt, StateAfter(t).v[b]))

----------------------------------------------------------------------------
(* C3.  While compute_accelerations runs, positions, velocities and masses *)
(* do not change and positions is still the snapshot saved in column t;    *)
(* the rows of the new array are built from that one snapshot; and the     *)
(* array returned is the acceleration of every body at that snapshot.      *)

\* the bodies whose contribution row a of acc_new holds at (i, j)
Summed(a) ==
    IF a < i THEN Bodies \ {a}
    ELSE IF a = i THEN {c \in Bodies : c < j /\ c # a}
    ELSE {}

C3_OneSnapshot ==
    /\ [](Computing \/ pc = "vel" =>
            /\ positions = Column(t)
            /\ velocities = StateAfter(t).v)
    /\ [](pc \in {"inner", "dist", "add"} =>
            \A a \in Bodies :
                acc_new[a] = SumOver(Column(t), masses, a, Summed(a)))
    /\ [](pc = "vel" => acc = Gravity(Column(t), masses, NBodies))
    /\ [][Computing =>
            (UNCHANGED <<positions, velocities, masses, trajectories>>
             /\ (pc # "return" => acc' = acc))]_vars

\* a computation under way after an earlier step has moved every body
C3_Witness ==
    /\ pc = "add"
    /\ t >= 1
    /\ i = 2
    /\ j = 1
    /\ AllFinite(acc_new)
    /\ acc_new[0] # ZeroVec
    /\ acc_new[1] # ZeroVec
    /\ \A b \in Bodies : positions[b] # initial.positions[b]

----------------------------------------------------------------------------
(* C4.  Two bodies at the same position at the start of a step stop the    *)
(* run with SingularConfiguration: the step goes no further than line 70,  *)
(* and no array ever holds a value that is not finite.                     *)

C4_SingularConfiguration ==
    /\ (pc \in {"return", "vel", "pos"} /\ Coincident(Column(t))) =>
          err = "SingularConfiguration"
    /\ AllFinite(positions)
    /\ AllFinite(velocities)
    /\ AllFinite(acc)
    /\ AllFinite(acc_new)
    /\ \A b \in DOMAIN trajectories : AllFinite(trajectories[b])

----------------------------------------------------------------------------
(* C5.  With fewer than two bodies, arrays of different lengths, a mass    *)
(* <= 0, dt <= 0 or steps <= 0, the script ends with InvalidConfiguration  *)
(* before a step runs and before a trajectory entry is written.            *)

InvalidConfiguration ==
    \/ Rows(masses) < 2
    \/ Rows(masses) # Rows(initial.positions)
    \/ Rows(masses) # Rows(initial.velocities)
    \/ \E b \in DOMAIN masses : masses[b].val <= 0
    \/ dt.val <= 0
    \/ steps <= 0

C5_InvalidConfiguration ==
    InvalidConfiguration =>
        /\ pc \in {"alloc", "error"}
        /\ pc = "error" => err = "InvalidConfiguration"
        /\ t = -1

----------------------------------------------------------------------------
(* C6.  Original: for every number N >= 2 of bodies the run proceeds, the  *)
(* trajectory has one row per body and the array compute_accelerations     *)
(* returns holds, for each of the N bodies, the sum of the contributions   *)
(* of exactly the other N - 1 bodies.                                      *)

\* masses, positions and velocities all have n rows
Sized(n) ==
    /\ Rows(masses) = n
    /\ Rows(initial.positions) = n
    /\ Rows(initial.velocities) = n

----------------------------------------------------------------------------
(* C7.  Original: with two bodies and zero initial velocities the run      *)
(* proceeds and at every step the acceleration of each body points along   *)
(* the separation toward the other body; with equal masses placed          *)
(* symmetrically on the x axis the velocities after one step have zero y   *)
(* and z components and opposite x components.                             *)

\* a points along r: component by component the same sign, zero where r is
Along(a, sep) ==
    /\ Finite(a)
    /\ \A k \in Dims :
          /\ a[k].val * sep[k].val >= 0
          /\ sep[k].val = 0 => a[k].val = 0

AtRest == \A b \in DOMAIN initial.velocities : initial.velocities[b] = ZeroVec

\* bodies 0 and 1 start at (x, 0, 0) and (-x, 0, 0) with equal masses
Mirrored ==
    /\ masses[0] = masses[1]
    /\ initial.positions[0][0].val = 0 - initial.positions[1][0].val
    /\ \A b \in {0, 1}, k \in {1, 2} : initial.positions[b][k].val = 0

\* opposite velocities along the x axis
Opposite ==
    /\ \A b \in {0, 1} : velocities[b][1] = F(0) /\ velocities[b][2] = F(0)
    /\ ~velocities[0][0].nan
    /\ ~velocities[1][0].nan
    /\ velocities[0][0].val = 0 - velocities[1][0].val

----------------------------------------------------------------------------
(* C8.  The loop ends, and it ends only after the step indices 0, 1, ...,  *)
(* steps - 1 have each been taken once, in increasing order: when the loop *)
(* has ended t is steps - 1, every column has been written and positions   *)
(* and velocities are those after steps updates.                           *)

C8_FixedStepCount ==
    /\ <>AfterLoop
    /\ [](AfterLoop =>
            /\ t = steps - 1
            /\ positions = StateAfter(steps).p
            /\ velocities = StateAfter(steps).v
            /\ \A s \in 0 .. steps - 1 : Written(s))
    /\ [][(t' # t => (t' = t + 1 /\ pc = "for" /\ pc' = "save"))
           /\ ((InLoop /\ ~InLoop') => (pc = "for" /\ t = steps - 1))
           /\ (pc = "save" => Column(t)' = positions)]_vars

C8_Witness ==
    /\ pc = "plot"
    /\ steps = MaxSteps
    /\ t = steps - 1
    /\ AllFinite(positions)
    /\ Column(t) # positions

----------------------------------------------------------------------------
(* C9.  An entry of the trajectory changes only when line 70 writes the    *)
(* column of the current step; the columns of later steps hold zeros; a    *)
(* written column keeps its value while positions changes; nothing after   *)
(* the loop writes to the trajectory.                                      *)

C9_AppendOnly ==
    /\ [](pc # "alloc" =>
            \A s \in 0 .. steps - 1 :
                ~Written(s) => Column(s) = [b \in Bodies |-> ZeroVec])
    /\ [][pc # "alloc" =>
            \A s \in 0 .. steps - 1 :
                Column(s)' # Column(s) => (pc = "save" /\ s = t)]_vars
    /\ [][AfterLoop => trajectories' = trajectories]_vars

\* the animation has run, and positions has moved on from a written column
C9_Witness ==
    /\ pc = "done"
    /\ frame > 0
    /\ steps >= 2
    /\ Column(0) # Column(1)
    /\ \A s \in 0 .. steps - 1 : Column(s) # positions

----------------------------------------------------------------------------
(* C10.  No statement changes masses, dt or steps; positions changes only  *)
(* at line 73 and velocities only at line 72, each once in a step; neither *)
(* compute_accelerations nor the code after the loop writes to them.       *)

C10_SoleMutator ==
    [][(masses' = masses)
       /\ (dt' = dt)
       /\ (steps' = steps)
       /\ (positions' # positions => (pc = "pos" /\ pc' = "for"))
       /\ (velocities' # velocities => (pc = "vel" /\ pc' = "pos"))
       /\ (pc = "vel" =>
             \A b \in Bodies :
                velocities'[b] = VAdd(velocities[b], VScale(dt, acc[b])))
       /\ (pc = "pos" =>
             \A b \in Bodies :
                positions'[b] = VAdd(positions[b], VScale(dt, velocities[b])))]_vars

\* the whole script has run and both arrays have changed
C10_Witness ==
    /\ pc = "done"
    /\ AllFinite(positions)
    /\ \A b \in Bodies :
          /\ positions[b] # initial.positions[b]
          /\ velocities[b] # initial.velocities[b]

============================================================================
